---- MODULE Spec2Model ----
(***************************************************************************)
(* Generational handle registry (HandleRegister) and the dense columnar    *)
(* store built on it (math::VectorSOA).                                    *)
(*                                                                         *)
(* Vectors are sequences; the element the code addresses as v[i] is        *)
(* v[i + 1] here (At / Put).  Machine words are scaled: a uint32_t has     *)
(* U32Bits bits and a size_t has one bit more, so that the sentinels and   *)
(* the wrap-around of the unsigned arithmetic stay inside the model.       *)
(***************************************************************************)
EXTENDS Integers, Sequences, FiniteSets, TLC

\* ------------------------------------------------------------------ bounds
U32Bits == 2
MaxIndex == 1
MaxCap == 1
MaxIds == 2
MaxGen == 1
MaxRows == 2
MaxSteps == 2

\* --------------------------------------------------------------- constants
RECURSIVE Pow2(_)
Pow2(n) == IF n = 0 THEN 1 ELSE 2 * Pow2(n - 1)

U32_MAX == Pow2(U32Bits) - 1
SIZE_MAX == Pow2(U32Bits + 1) - 1

invalid_id == U32_MAX
invalid_index == U32_MAX

\* struct Handle { id{ invalid_id }, generation{ 0 } }
Handle(id, generation) == [id |-> id, generation |-> generation]
NullHandle == Handle(invalid_id, 0)

\* Handle::is_valid (the struct's own test)
handle_is_valid(h) == h.id # invalid_id

\* --------------------------------------------------------------- std::vector
At(v, i) == v[i + 1]
Put(v, i, x) == [v EXCEPT ![i + 1] = x]
InRange(v, i) == i >= 0 /\ i < Len(v)

\* std::vector::resize(n, fill)
vector_resize(v, n, fill) ==
    IF n <= Len(v) THEN SubSeq(v, 1, n)
    ELSE v \o [k \in 1..(n - Len(v)) |-> fill]

\* ensure_size that resizes whatever the size, so that it also truncates
ensure_size_exact(container, n, fill) == vector_resize(container, n, fill)

ensure_size(container, n, fill) ==
    IF Len(container) < n THEN vector_resize(container, n, fill) ELSE container

\* ------------------------------------------------------------ HandleRegister
\* A register value: the four vectors of the class.
Register(i2x, x2i, gen, free) ==
    [idToIndex |-> i2x, indexToId |-> x2i, generations |-> gen, freeIds |-> free]

EmptyRegister == Register(<<>>, <<>>, <<>>, <<>>)

\* is_valid without the round trip through the reverse map
is_valid_forward_only(r, h) ==
    LET id == h.id IN
    /\ id # invalid_id
    /\ id < Len(r.idToIndex)
    /\ id < Len(r.generations)
    /\ At(r.generations, id) = h.generation
    /\ At(r.idToIndex, id) # invalid_index

\* is_valid without the comparison of generations
is_valid_any_generation(r, h) ==
    LET id == h.id IN
    IF id = invalid_id \/ id >= Len(r.idToIndex) \/ id >= Len(r.generations)
    THEN FALSE
    ELSE LET index == At(r.idToIndex, id) IN
         ~(\/ index = invalid_index
           \/ index >= Len(r.indexToId)
           \/ At(r.indexToId, index) # id)

is_valid(r, h) ==
    LET id == h.id IN
    IF \/ id = invalid_id
       \/ id >= Len(r.idToIndex)
       \/ id >= Len(r.generations)
       \/ At(r.generations, id) # h.generation
    THEN FALSE
    ELSE LET index == At(r.idToIndex, id) IN
         IF \/ index = invalid_index
            \/ index >= Len(r.indexToId)
            \/ At(r.indexToId, index) # id
         THEN FALSE
         ELSE TRUE

get_index(r, h) ==
    IF ~is_valid(r, h) THEN invalid_index ELSE At(r.idToIndex, h.id)

\* The ownership guard of update and erase: the reverse entry at `index` is
\* there and still points back to `id`.
owns_reverse(x2i, index, id) ==
    /\ index # invalid_index
    /\ index < Len(x2i)
    /\ At(x2i, index) = id

\* reserve: range checks, then std::vector::reserve on the four vectors,
\* which changes no element and no size.
reserve_throws(handleCapacity, indexCapacity) ==
    handleCapacity > U32_MAX \/ indexCapacity > U32_MAX

reserve(r, handleCapacity, indexCapacity) == r

\* the range test of resize on the handle capacity alone
resize_throws_handle_only(handleCapacity, indexCapacity) ==
    handleCapacity > U32_MAX

resize_throws(handleCapacity, indexCapacity) ==
    handleCapacity > U32_MAX \/ indexCapacity > U32_MAX

resize(r, handleCapacity, indexCapacity) ==
    LET InBounds(id) == ~(id >= handleCapacity)
        free == IF handleCapacity < Len(r.freeIds)
                THEN SelectSeq(r.freeIds, InBounds)
                ELSE r.freeIds
    IN Register(vector_resize(r.idToIndex, handleCapacity, invalid_index),
                vector_resize(r.indexToId, indexCapacity, invalid_id),
                vector_resize(r.generations, handleCapacity, 0),
                vector_resize(free, handleCapacity, 0))

\* A whole call of reserve or resize: the register it leaves and whether it
\* threw std::invalid_argument.
reserve_call(r, handleCapacity, indexCapacity) ==
    IF reserve_throws(handleCapacity, indexCapacity)
    THEN [reg |-> r, threw |-> TRUE]
    ELSE [reg |-> reserve(r, handleCapacity, indexCapacity), threw |-> FALSE]

resize_call(r, handleCapacity, indexCapacity) ==
    IF resize_throws(handleCapacity, indexCapacity)
    THEN [reg |-> r, threw |-> TRUE]
    ELSE [reg |-> resize(r, handleCapacity, indexCapacity), threw |-> FALSE]

\* The loop of insert that pops free ids until one is inside both arrays.
\* It starts with id = invalid_id, so it runs at least once, and it does not
\* test for emptiness again: `underflow` is set when back()/pop_back() are
\* reached on an empty vector.
RECURSIVE pop_free(_, _, _)
pop_free(free, nGenerations, nIdToIndex) ==
    IF free = <<>>
    THEN [id |-> invalid_id, free |-> <<>>, underflow |-> TRUE]
    ELSE LET id == free[Len(free)]
             rest == SubSeq(free, 1, Len(free) - 1)
         IN IF id >= nGenerations \/ id >= nIdToIndex
            THEN pop_free(rest, nGenerations, nIdToIndex)
            ELSE [id |-> id, free |-> rest, underflow |-> FALSE]

\* insert_bind without the write of the reverse map
insert_bind_forward_only(r, x2i, free, id, index) ==
    LET fresh == (id = invalid_id)
        nid == IF fresh THEN Len(r.generations) ELSE id
        i2x == IF fresh THEN Append(r.idToIndex, invalid_index) ELSE r.idToIndex
        gen == IF fresh THEN Append(r.generations, 0) ELSE r.generations
    IN [reg |-> Register(Put(i2x, nid, index), x2i, gen, free),
        ret |-> Handle(nid, At(gen, nid)),
        undefined |-> FALSE]

\* Writing both mappings and returning the handle (the tail of insert).
insert_bind(r, x2i, free, id, index) ==
    LET fresh == (id = invalid_id)
        nid == IF fresh THEN Len(r.generations) ELSE id
        i2x == IF fresh THEN Append(r.idToIndex, invalid_index) ELSE r.idToIndex
        gen == IF fresh THEN Append(r.generations, 0) ELSE r.generations
    IN [reg |-> Register(Put(i2x, nid, index), Put(x2i, index, nid), gen, free),
        ret |-> Handle(nid, At(gen, nid)),
        undefined |-> FALSE]

\* insert without the refusal of an index the reverse map holds an id for
insert_takes_over(r, index) ==
    LET x2i == ensure_size(r.indexToId, index + 1, invalid_id) IN
    IF r.freeIds = <<>>
    THEN {insert_bind(r, x2i, r.freeIds, invalid_id, index)}
    ELSE LET p == pop_free(r.freeIds, Len(r.generations), Len(r.idToIndex)) IN
         {insert_bind(r, x2i, p.free, p.id, index)}

\* insert: the set of outcomes.  Reading back() of an empty vector is
\* undefined behaviour: the build either stops there (undefined = TRUE, the
\* register as it was on entry to the loop) or goes on with whatever word it
\* read, which ends the loop only when it is an id inside both arrays.
insert(r, index) ==
    LET x2i == ensure_size(r.indexToId, index + 1, invalid_id) IN
    IF At(x2i, index) # invalid_id
    THEN {[reg |-> [r EXCEPT !.indexToId = x2i], ret |-> NullHandle, undefined |-> FALSE]}
    ELSE IF r.freeIds = <<>>
    THEN {insert_bind(r, x2i, r.freeIds, invalid_id, index)}
    ELSE LET p == pop_free(r.freeIds, Len(r.generations), Len(r.idToIndex)) IN
         IF ~p.underflow
         THEN {insert_bind(r, x2i, p.free, p.id, index)}
         ELSE {[reg |-> [r EXCEPT !.indexToId = x2i, !.freeIds = <<>>],
                ret |-> NullHandle, undefined |-> TRUE]}
              \cup {insert_bind(r, x2i, <<>>, id, index) :
                      id \in {g \in 0..(Len(r.generations) - 1) : g < Len(r.idToIndex)}}

\* update that reports success without writing the forward map
update_reverse_only(r, handle, index) ==
    IF ~is_valid(r, handle)
    THEN [reg |-> r, ret |-> FALSE]
    ELSE LET x2i == ensure_size(r.indexToId, index + 1, invalid_id) IN
         IF At(x2i, index) # invalid_id
         THEN [reg |-> [r EXCEPT !.indexToId = x2i], ret |-> FALSE]
         ELSE [reg |-> [r EXCEPT !.indexToId = Put(x2i, index, handle.id)],
               ret |-> TRUE]

\* update without the refusal of an index the reverse map holds an id for
update_takes_over(r, handle, index) ==
    IF ~is_valid(r, handle)
    THEN [reg |-> r, ret |-> FALSE]
    ELSE LET x2i == ensure_size(r.indexToId, index + 1, invalid_id)
             cleared == Put(x2i, At(r.idToIndex, handle.id), invalid_id)
         IN [reg |-> [r EXCEPT !.idToIndex = Put(r.idToIndex, handle.id, index),
                               !.indexToId = Put(cleared, index, handle.id)],
             ret |-> TRUE]

update(r, handle, index) ==
    IF ~is_valid(r, handle)
    THEN [reg |-> r, ret |-> FALSE]
    ELSE LET id == handle.id
             oldIndex == At(r.idToIndex, id)
             x2i == ensure_size(r.indexToId, index + 1, invalid_id)
         IN IF At(x2i, index) # invalid_id
            THEN [reg |-> [r EXCEPT !.indexToId = x2i], ret |-> FALSE]
            ELSE LET cleared ==
                         IF owns_reverse(x2i, oldIndex, id)
                         THEN Put(x2i, oldIndex, invalid_id)
                         ELSE x2i
                 IN [reg |-> [r EXCEPT !.idToIndex = Put(r.idToIndex, id, index),
                                       !.indexToId = Put(cleared, index, id)],
                     ret |-> TRUE]

\* erase that retires the id and leaves both maps as they are
erase_keeps_maps(r, handle) ==
    IF ~is_valid(r, handle)
    THEN r
    ELSE [r EXCEPT !.generations = Put(@, handle.id,
                                       (At(@, handle.id) + 1) % (U32_MAX + 1)),
                   !.freeIds = Append(@, handle.id)]

erase(r, handle) ==
    IF ~is_valid(r, handle)
    THEN r
    ELSE LET id == handle.id
             index == At(r.idToIndex, id)
             x2i == IF owns_reverse(r.indexToId, index, id)
                    THEN Put(r.indexToId, index, invalid_id)
                    ELSE r.indexToId
         IN Register(Put(r.idToIndex, id, invalid_index),
                     x2i,
                     Put(r.generations, id, (At(r.generations, id) + 1) % (U32_MAX + 1)),
                     Append(r.freeIds, id))

\* ----------------------------------------------------------------- VectorSOA
\* The model instantiates VectorSOA<N, T> with N columns of a T that has the
\* values Val; Indeterminate stands for the word an uninitialized or
\* out-of-bounds cell happens to hold.
N == 2
Val == {"a", "b"}
Indeterminate == "indeterminate"
Columns == 1..N

\* A store value: the members of the class.
Store(size, capacity, data, handles) ==
    [size |-> size, capacity |-> capacity, data |-> data, handles |-> handles]

\* new T[capacity], one buffer of uninitialized cells (nullptr when empty)
new_buffer(capacity) == [k \in 1..capacity |-> Indeterminate]

EmptyStore == Store(0, 0, [c \in Columns |-> <<>>], EmptyRegister)

\* The cell data[c][i]; an index outside the buffer reads some other memory.
cell(data, c, i) == IF InRange(data[c], i) THEN At(data[c], i) ELSE Indeterminate

Min(a, b) == IF a < b THEN a ELSE b

\* static_cast<uint32_t>(size_t)
to_u32(n) == n % (U32_MAX + 1)

\* reallocate: `overrun` when copy_n reads past the end of the old buffer.
reallocate(s, capacity) ==
    LET n == IF s.size > 0 /\ s.capacity > 0 THEN Min(s.size, capacity) ELSE 0
        data == [c \in Columns |->
                    [k \in 1..capacity |->
                        IF k <= n THEN cell(s.data, c, k - 1) ELSE Indeterminate]]
    IN [store |-> Store(IF s.size > capacity THEN capacity ELSE s.size,
                        capacity, data, s.handles),
        overrun |-> n > s.capacity]

\* The outcomes of a step that may have run into undefined behaviour: the
\* build goes on with what it read, or stops.
Outcomes(store, ret, ub) ==
    {[store |-> store, ret |-> ret, threw |-> FALSE, undefined |-> FALSE]}
    \cup (IF ub THEN {[store |-> store, ret |-> ret, threw |-> FALSE, undefined |-> TRUE]}
          ELSE {})

Thrown(store, ret) ==
    {[store |-> store, ret |-> ret, threw |-> TRUE, undefined |-> FALSE]}

\* VectorSOA::reserve
soa_reserve(s, capacity) ==
    IF capacity <= s.capacity
    THEN Outcomes(s, NullHandle, FALSE)
    ELSE LET re == reallocate(s, capacity) IN
         IF reserve_throws(capacity, capacity)
         THEN Thrown(re.store, NullHandle)
         ELSE Outcomes([re.store EXCEPT
                           !.handles = reserve(s.handles, capacity, capacity)],
                       NullHandle, re.overrun)

\* VectorSOA::resize
soa_resize(s, size) ==
    LET re == IF size > s.capacity THEN reallocate(s, size)
              ELSE [store |-> s, overrun |-> FALSE]
    IN IF resize_throws(size, size)
       THEN Thrown(re.store, NullHandle)
       ELSE Outcomes([re.store EXCEPT !.handles = resize(s.handles, size, size),
                                      !.size = size],
                     NullHandle, re.overrun)

\* VectorSOA::shrink_to_fit
soa_shrink_to_fit(s) ==
    IF s.size < s.capacity
    THEN LET re == reallocate(s, s.size) IN
         Outcomes([re.store EXCEPT !.handles = resize(s.handles, s.size, s.size)],
                  NullHandle, re.overrun)
    ELSE Outcomes(s, NullHandle, FALSE)

\* VectorSOA::clear
soa_clear(s) == [s EXCEPT !.size = 0]

\* VectorSOA::emplace.  The arguments xs are not stored: the body between
\* insert and ++m_size is a TODO.
soa_emplace(s, xs) ==
    LET grown == IF s.size = s.capacity
                 THEN soa_reserve(s, IF s.capacity > 0
                                     THEN (s.capacity * 2) % (SIZE_MAX + 1) ELSE 1)
                 ELSE Outcomes(s, NullHandle, FALSE)
    IN UNION {
         IF g.threw \/ g.undefined THEN {g}
         ELSE LET index == to_u32(g.store.size) IN
              {[store |-> [g.store EXCEPT
                              !.handles = o.reg,
                              !.size = IF o.undefined THEN @
                                       ELSE (@ + 1) % (SIZE_MAX + 1)],
                ret |-> o.ret, threw |-> FALSE, undefined |-> o.undefined]
                 : o \in insert(g.store.handles, index)}
         : g \in grown }

\* HandleRegister::get_handle(index), which VectorSOA::erase calls and the
\* class does not declare: the handle that owns `index` by the reverse map.
get_handle(r, index) ==
    IF /\ index < Len(r.indexToId)
       /\ At(r.indexToId, index) # invalid_id
       /\ At(r.indexToId, index) < Len(r.generations)
    THEN Handle(At(r.indexToId, index), At(r.generations, At(r.indexToId, index)))
    ELSE NullHandle

\* VectorSOA::erase past its validity test (its `h` is the parameter `handle`)
soa_erase_valid(s, handle) ==
    LET index_u32 == get_index(s.handles, handle)
        index == index_u32
        last == (s.size - 1) % (SIZE_MAX + 1)
        moved == get_handle(s.handles, to_u32(last))
        data == IF index # last
                THEN [c \in Columns |->
                        IF InRange(s.data[c], index)
                        THEN Put(s.data[c], index, cell(s.data, c, last))
                        ELSE s.data[c]]
                ELSE s.data
        retargeted == IF index # last
                      THEN update(s.handles, moved, index_u32).reg
                      ELSE s.handles
        ub == index # last /\ (index >= s.capacity \/ last >= s.capacity)
    IN Outcomes(Store((s.size - 1) % (SIZE_MAX + 1), s.capacity, data,
                      erase(retargeted, handle)),
                TRUE, ub)

\* erase that tests the handle alone (Handle::is_valid), not the register
soa_erase_any_handle(s, handle) ==
    IF ~handle_is_valid(handle)
    THEN Outcomes(s, FALSE, FALSE)
    ELSE soa_erase_valid(s, handle)

\* VectorSOA::erase
soa_erase(s, handle) ==
    IF ~is_valid(s.handles, handle)
    THEN Outcomes(s, FALSE, FALSE)
    ELSE soa_erase_valid(s, handle)

\* VectorSOA::operator[] and a write of `row` through the view it returns
soa_write(s, i, row) ==
    [s EXCEPT !.data = [c \in Columns |-> Put(s.data[c], i, row[c])]]

\* ------------------------------------------------------------------- state
\* ================================================== IModule, the operations
\* IModule::State and ExecutionMode.
ModuleStates == {"CREATED", "INITIALIZED", "RUNNING", "PAUSED", "STOPPED"}
ExecutionModes == {"ONCE", "MAX_RATE", "FIXED_RATE"}

\* What a call of the interface leaves: the state, the value returned, the
\* hook it called (if any) and whether it started the worker thread.
Returned(state, ret, hook, spawned) ==
    [state |-> state, ret |-> ret, hook |-> hook, spawned |-> spawned]

\* A call whose hook returned `ok`: the state changes only when it did.
Hooked(state, next, hook, ok, spawned) ==
    IF ok THEN Returned(next, TRUE, hook, spawned)
    ELSE Returned(state, FALSE, hook, FALSE)

\* std::thread::joinable(): a thread was started and never joined, whether
\* run() is still going or has returned.
joinable(thread) == thread # "none"

\* IModule::init; `ok` is what the hook returns.
init(state, ok) ==
    CASE state = "CREATED" -> Hooked(state, "INITIALIZED", "onInit", ok, FALSE)
      [] state = "INITIALIZED" -> Returned(state, TRUE, "none", FALSE)
      [] OTHER -> Returned(state, FALSE, "none", FALSE)

\* IModule::release
release(state, ok) ==
    CASE state \in {"INITIALIZED", "STOPPED"} ->
             Hooked(state, "CREATED", "onRelease", ok, FALSE)
      [] state = "CREATED" -> Returned(state, TRUE, "none", FALSE)
      [] OTHER -> Returned(state, FALSE, "none", FALSE)

\* IModule::start: the worker thread is started from INITIALIZED when
\* m_thread is not joinable.
start(state, thread, ok) ==
    CASE state = "INITIALIZED" ->
             Hooked(state, "RUNNING", "onStart", ok, ~joinable(thread))
      [] state = "PAUSED" -> Hooked(state, "RUNNING", "onResume", ok, FALSE)
      [] state = "RUNNING" -> Returned(state, TRUE, "none", FALSE)
      [] OTHER -> Returned(state, FALSE, "none", FALSE)

\* IModule::stop
stop(state, ok) ==
    CASE state \in {"RUNNING", "PAUSED"} ->
             Hooked(state, "STOPPED", "onStop", ok, FALSE)
      [] state = "STOPPED" -> Returned(state, TRUE, "none", FALSE)
      [] OTHER -> Returned(state, FALSE, "none", FALSE)

\* IModule::pause: the RUNNING case assigns State::STOPPED.
pause(state, ok) ==
    CASE state = "RUNNING" -> Hooked(state, "STOPPED", "onPause", ok, FALSE)
      [] state = "PAUSED" -> Returned(state, TRUE, "none", FALSE)
      [] OTHER -> Returned(state, FALSE, "none", FALSE)

\* IModule::reset
reset(state, ok) ==
    CASE state = "STOPPED" -> Hooked(state, "INITIALIZED", "onReset", ok, FALSE)
      [] state = "INITIALIZED" -> Returned(state, TRUE, "none", FALSE)
      [] OTHER -> Returned(state, FALSE, "none", FALSE)

VARIABLES
    m_idToIndex,    \* HandleRegister::m_idToIndex
    m_indexToId,    \* HandleRegister::m_indexToId
    m_generations,  \* HandleRegister::m_generations
    m_freeIds,      \* HandleRegister::m_freeIds
    m_size,         \* VectorSOA::m_size
    m_capacity,     \* VectorSOA::m_capacity
    m_data,         \* VectorSOA::m_data, one sequence of m_capacity cells per column
    undefined,      \* the program ran into undefined behaviour and stopped
    watch,          \* one of the handles issued so far, followed through its life
    m_state,        \* IModule::m_state
    m_mode,         \* IModule::m_mode
    m_thread,       \* IModule::m_thread: no thread yet, or where the worker is in run()
    mode,           \* the local `mode` of IModule::run
    steps,          \* how many times the worker has called step(), up to MaxSteps
    called          \* the last call of the module's interface and what it returned

regvars == <<m_idToIndex, m_indexToId, m_generations, m_freeIds>>
storevars == <<m_size, m_capacity, m_data>>
modvars == <<m_state, m_mode, m_thread, mode, steps, called>>
vars == <<m_idToIndex, m_indexToId, m_generations, m_freeIds,
          m_size, m_capacity, m_data, undefined, watch,
          m_state, m_mode, m_thread, mode, steps, called>>

\* The register of the state (the test fixture's `reg`, the store's m_handles).
Reg == Register(m_idToIndex, m_indexToId, m_generations, m_freeIds)

SetReg(r) ==
    /\ m_idToIndex' = r.idToIndex
    /\ m_indexToId' = r.indexToId
    /\ m_generations' = r.generations
    /\ m_freeIds' = r.freeIds

\* The handle followed: `life` is "none" before one is chosen, "live" from
\* the call that returned it, "erased" once an erase of it took effect; `row`
\* holds the values its row was given, by emplace or by a later write
\* through a view of that row; `ref` is the entry the reference map
\* id -> (index, generation) of the randomized test holds for the id of the
\* handle (alive = FALSE when the map has no entry for it).
NoRow == <<>>
NoRef == [alive |-> FALSE, index |-> invalid_index, generation |-> 0]
AliveInfo(index, generation) ==
    [alive |-> TRUE, index |-> index, generation |-> generation]
NoWatch == [h |-> NullHandle, life |-> "none", row |-> NoRow, ref |-> NoRef]

\* A call has returned `ret`: go on as before, or follow `ret` from here on.
Watched(ret, row) ==
    {watch} \cup (IF handle_is_valid(ret) /\ watch.life = "none"
                  THEN {[h |-> ret, life |-> "live", row |-> row, ref |-> NoRef]}
                  ELSE {})

\* An erase of `handle` has returned; `effective` when the handle was valid.
Retired(handle, effective) ==
    IF effective /\ watch.life = "live" /\ watch.h = handle
    THEN [watch EXCEPT !.life = "erased"]
    ELSE watch

\* aliveById[h.id] = AliveInfo{idx, h.generation}, for the id followed
RefInsert(w, ret, index) ==
    IF w.life # "none" /\ handle_is_valid(ret) /\ ret.id = w.h.id
    THEN [w EXCEPT !.ref = AliveInfo(index, ret.generation)]
    ELSE w

\* update(handle, index) has returned ok: a successful update re-targets the
\* entry of the id.  (The test makes the same assignment when the handle is
\* valid after the call, which it expects to be the same condition.)
RefUpdate(w, handle, index, ok) ==
    IF ok /\ w.life # "none" /\ handle.id = w.h.id
    THEN [w EXCEPT !.ref = AliveInfo(index, handle.generation)]
    ELSE w

\* erase(handle) has returned: the entry is removed when it holds the
\* generation of the handle.
RefErase(w, handle) ==
    IF /\ w.life # "none" /\ handle.id = w.h.id
       /\ w.ref.alive /\ w.ref.generation = handle.generation
    THEN [w EXCEPT !.ref = NoRef]
    ELSE w

\* ------------------------------------------------------------------ inputs
Indices == 0..MaxIndex
Capacities == 0..MaxCap \cup {U32_MAX + 1}
Slots == 0..(MaxIndex + 1)
Ids == 0..(MaxIds - 1)
Handles == {Handle(id, g) : id \in Ids \cup {invalid_id}, g \in 0..MaxGen}
\* The rows the callers pass: two, differing in every column.
Rows == {[c \in Columns |-> IF c % 2 = k THEN "a" ELSE "b"] : k \in 0..1}

\* ------------------------------------------------ HandleRegister, the calls
RegInit ==
    /\ m_idToIndex = <<>>
    /\ m_indexToId = <<>>
    /\ m_generations = <<>>
    /\ m_freeIds = <<>>

\* IModule(mode, frequencyHz): CREATED, no thread.
NoCall == [op |-> "none", ret |-> FALSE]
ModuleInit ==
    /\ m_state = "CREATED"
    /\ m_mode = "MAX_RATE"
    /\ m_thread = "none"
    /\ mode = "MAX_RATE"
    /\ steps = 0
    /\ called = NoCall

Init ==
    /\ RegInit
    /\ m_size = 0
    /\ m_capacity = 0
    /\ m_data = EmptyStore.data
    /\ undefined = FALSE
    /\ watch = NoWatch
    /\ ModuleInit

Reserve(handleCapacity, indexCapacity) ==
    /\ ~undefined
    /\ SetReg(reserve_call(Reg, handleCapacity, indexCapacity).reg)
    /\ UNCHANGED <<storevars, undefined, watch>>
    /\ UNCHANGED modvars

Resize(handleCapacity, indexCapacity) ==
    /\ ~undefined
    /\ SetReg(resize_call(Reg, handleCapacity, indexCapacity).reg)
    /\ UNCHANGED <<storevars, undefined, watch>>
    /\ UNCHANGED modvars

Insert(index) ==
    /\ ~undefined
    /\ \E o \in insert(Reg, index) :
         /\ Len(o.reg.generations) <= MaxIds
         /\ SetReg(o.reg)
         /\ undefined' = o.undefined
         /\ watch' \in Watched(o.ret, NoRow)
    /\ UNCHANGED storevars
    /\ UNCHANGED modvars

Update(handle, index) ==
    /\ ~undefined
    /\ LET o == update(Reg, handle, index) IN
         /\ SetReg(o.reg)
    /\ UNCHANGED <<storevars, undefined, watch>>
    /\ UNCHANGED modvars

Erase(handle) ==
    /\ ~undefined
    /\ is_valid(Reg, handle) => handle.generation < MaxGen
    /\ SetReg(erase(Reg, handle))
    /\ watch' = Retired(handle, is_valid(Reg, handle))
    /\ UNCHANGED <<storevars, undefined>>
    /\ UNCHANGED modvars

NextRegister ==
    \/ \E hc \in Capacities, ic \in Capacities : Reserve(hc, ic)
    \/ \E hc \in Capacities, ic \in Capacities : Resize(hc, ic)
    \/ \E index \in Indices : Insert(index)
    \/ \E h \in Handles, index \in Indices : Update(h, index)
    \/ \E h \in Handles : Erase(h)

SpecRegister == Init /\ [][NextRegister]_vars

\* The branches of the loop of the randomized test: the call, and the
\* bookkeeping of the reference map for the id followed.
TestInsert(index) ==
    /\ ~undefined
    /\ \E o \in insert(Reg, index) :
         /\ Len(o.reg.generations) <= MaxIds
         /\ SetReg(o.reg)
         /\ undefined' = o.undefined
         /\ watch' \in {RefInsert(w, o.ret, index) : w \in Watched(o.ret, NoRow)}
    /\ UNCHANGED storevars
    /\ UNCHANGED modvars

TestUpdate(handle, index) ==
    /\ ~undefined
    /\ LET o == update(Reg, handle, index) IN
         /\ SetReg(o.reg)
         /\ watch' = RefUpdate(watch, handle, index, o.ret)
    /\ UNCHANGED <<storevars, undefined>>
    /\ UNCHANGED modvars

TestErase(handle) ==
    /\ ~undefined
    /\ is_valid(Reg, handle) => handle.generation < MaxGen
    /\ SetReg(erase(Reg, handle))
    /\ watch' = RefErase(Retired(handle, is_valid(Reg, handle)), handle)
    /\ UNCHANGED <<storevars, undefined>>
    /\ UNCHANGED modvars

\* The calls of the test fixture: reserve once set up, then insert, update
\* and erase in any order (no resize), with indices drawn from a range wider
\* than the number of ids.
NextLifecycle ==
    \/ \E hc \in Capacities, ic \in Capacities : Reserve(hc, ic)
    \/ \E index \in Slots : TestInsert(index)
    \/ \E h \in Handles, index \in Slots : TestUpdate(h, index)
    \/ \E h \in Handles : TestErase(h)

SpecLifecycle == Init /\ [][NextLifecycle]_vars

\* ----------------------------------------------------- VectorSOA, the calls
S == Store(m_size, m_capacity, m_data, Reg)

SetStore(s) ==
    /\ m_size' = s.size
    /\ m_capacity' = s.capacity
    /\ m_data' = s.data
    /\ SetReg(s.handles)

StoreReserve(capacity) ==
    /\ ~undefined
    /\ \E o \in soa_reserve(S, capacity) :
         /\ SetStore(o.store)
         /\ undefined' = o.undefined
    /\ UNCHANGED watch
    /\ UNCHANGED modvars

StoreResize(size) ==
    /\ ~undefined
    /\ \E o \in soa_resize(S, size) :
         /\ SetStore(o.store)
         /\ undefined' = o.undefined
    /\ UNCHANGED watch
    /\ UNCHANGED modvars

ShrinkToFit ==
    /\ ~undefined
    /\ \E o \in soa_shrink_to_fit(S) :
         /\ SetStore(o.store)
         /\ undefined' = o.undefined
    /\ UNCHANGED watch
    /\ UNCHANGED modvars

Clear ==
    /\ ~undefined
    /\ SetStore(soa_clear(S))
    /\ UNCHANGED <<undefined, watch>>
    /\ UNCHANGED modvars

Emplace(xs) ==
    /\ ~undefined
    /\ m_size < MaxRows
    /\ \E o \in soa_emplace(S, xs) :
         /\ Len(o.store.handles.generations) <= MaxIds
         /\ SetStore(o.store)
         /\ undefined' = o.undefined
         /\ watch' \in Watched(o.ret, xs)
    /\ UNCHANGED modvars

StoreErase(handle) ==
    /\ ~undefined
    /\ is_valid(Reg, handle) => handle.generation < MaxGen
    /\ \E o \in soa_erase(S, handle) :
         /\ SetStore(o.store)
         /\ undefined' = o.undefined
         /\ watch' = Retired(handle, o.ret)
    /\ UNCHANGED modvars

RowWrite(i, row) ==
    /\ ~undefined
    /\ i < m_size /\ i < m_capacity
    /\ SetStore(soa_write(S, i, row))
    /\ watch' = IF watch.life = "live" /\ get_index(Reg, watch.h) = i
                THEN [watch EXCEPT !.row = row]
                ELSE watch
    /\ UNCHANGED undefined
    /\ UNCHANGED modvars

\* emplace, erase and row access only
NextDense ==
    \/ \E xs \in Rows : Emplace(xs)
    \/ \E h \in Handles : StoreErase(h)
    \/ \E i \in 0..(MaxRows - 1), row \in Rows : RowWrite(i, row)

SpecDense == Init /\ [][NextDense]_vars

\* emplace, erase and resize of the store
NextShrink ==
    \/ \E xs \in Rows : Emplace(xs)
    \/ \E h \in Handles : StoreErase(h)
    \/ \E size \in Capacities : StoreResize(size)

SpecShrink == Init /\ [][NextShrink]_vars

NextStore ==
    \/ \E capacity \in Capacities : StoreReserve(capacity)
    \/ \E size \in Capacities : StoreResize(size)
    \/ ShrinkToFit
    \/ Clear
    \/ \E xs \in Rows : Emplace(xs)
    \/ \E h \in Handles : StoreErase(h)
    \/ \E i \in 0..(MaxRows - 1), row \in Rows : RowWrite(i, row)

SpecStore == Init /\ [][NextStore]_vars

\* ------------------------------------------------------- IModule, the calls
\* Every call of the interface holds m_mutex for its whole body, and the
\* worker holds it except inside cv.wait, wait_for and step(): a call is one
\* step, taken while the worker is at one of those three places (or absent).
storeside == <<regvars, storevars, undefined, watch>>

\* A call has returned `o`: the state it leaves, and the thread it started
\* (which begins run() by taking the mutex, then waits on the condition).
Returns(op, o) ==
    /\ m_state' = o.state
    /\ m_thread' = IF o.spawned THEN "wait" ELSE m_thread
    /\ called' = [op |-> op, ret |-> o.ret]

CallInit ==
    /\ \E ok \in BOOLEAN : Returns("init", init(m_state, ok))
    /\ UNCHANGED <<m_mode, mode, steps, storeside>>

Release ==
    /\ \E ok \in BOOLEAN : Returns("release", release(m_state, ok))
    /\ UNCHANGED <<m_mode, mode, steps, storeside>>

Start ==
    /\ \E ok \in BOOLEAN : Returns("start", start(m_state, m_thread, ok))
    /\ UNCHANGED <<m_mode, mode, steps, storeside>>

Stop ==
    /\ \E ok \in BOOLEAN : Returns("stop", stop(m_state, ok))
    /\ UNCHANGED <<m_mode, mode, steps, storeside>>

Pause ==
    /\ \E ok \in BOOLEAN : Returns("pause", pause(m_state, ok))
    /\ UNCHANGED <<m_mode, mode, steps, storeside>>

Reset ==
    /\ \E ok \in BOOLEAN : Returns("reset", reset(m_state, ok))
    /\ UNCHANGED <<m_mode, mode, steps, storeside>>

\* IModule::setExecutionMode writes m_mode without the mutex: the worker
\* reads the old or the new value, as this step comes after or before its
\* read.
SetExecutionMode(newMode) ==
    /\ m_mode' = newMode
    /\ UNCHANGED <<m_state, m_thread, mode, steps, called, storeside>>

\* run(): m_cv.wait returns once the state is RUNNING or STOPPED; on STOPPED
\* the loop breaks and run() returns, else m_mode is copied and the mutex
\* released.
RunWait ==
    /\ m_thread = "wait"
    /\ m_state \in {"RUNNING", "STOPPED"}
    /\ IF m_state = "STOPPED"
       THEN m_thread' = "exited" /\ UNCHANGED mode
       ELSE m_thread' = "step" /\ mode' = m_mode
    /\ UNCHANGED <<m_state, m_mode, steps, called, storeside>>

\* run(): step(dt), then the mutex is taken again.  ONCE assigns STOPPED and
\* breaks; MAX_RATE loops; FIXED_RATE loops when the state is no longer
\* RUNNING or no time is left to sleep, else it sleeps in wait_for.
RunStep ==
    /\ m_thread = "step"
    /\ steps' = IF steps < MaxSteps THEN steps + 1 ELSE steps
    /\ CASE mode = "ONCE" -> m_state' = "STOPPED" /\ m_thread' = "exited"
         [] mode = "MAX_RATE" -> m_thread' = "wait" /\ UNCHANGED m_state
         [] mode = "FIXED_RATE" ->
                /\ UNCHANGED m_state
                /\ IF m_state # "RUNNING"
                   THEN m_thread' = "wait"
                   ELSE m_thread' \in {"wait", "sleep"}
    /\ UNCHANGED <<m_mode, mode, called, storeside>>

\* run(): wait_for returns, at the end of the period or earlier when the
\* state is no longer RUNNING.
RunSleep ==
    /\ m_thread = "sleep"
    /\ m_thread' = "wait"
    /\ UNCHANGED <<m_state, m_mode, mode, steps, called, storeside>>

NextModule ==
    \/ CallInit
    \/ Release
    \/ Start
    \/ Stop
    \/ Pause
    \/ Reset
    \/ \E newMode \in ExecutionModes : SetExecutionMode(newMode)
    \/ RunWait
    \/ RunStep
    \/ RunSleep

SpecModule == Init /\ [][NextModule]_vars

\* ================================================================== claims
\* Every uint32_t value, and every generation a copy of a handle may carry.
U32 == 0..U32_MAX
Generations == 0..(MaxGen + 1)

\* The handles register r holds valid, and the one among them at an index.
LiveHandles(r) ==
    {h \in {Handle(id, At(r.generations, id)) : id \in 0..(Len(r.generations) - 1)} :
        is_valid(r, h)}

HandlesAt(r, index) == {h \in LiveHandles(r) : get_index(r, h) = index}

\* No live id maps to index.
Unowned(r, index) == HandlesAt(r, index) = {}

\* The reverse map holds no id for index (the test insert and update make).
Unclaimed(r, index) ==
    index >= Len(r.indexToId) \/ At(r.indexToId, index) = invalid_id

RowAt(data, i) == [c \in Columns |-> cell(data, c, i)]

\* C1: dense store: every row in [0, size) has exactly one valid handle, and
\* no valid handle resolves to an index >= size.
C1_DenseStore ==
    ~undefined =>
        /\ \A i \in 0..(m_size - 1) : Cardinality(HandlesAt(Reg, i)) = 1
        /\ \A h \in LiveHandles(Reg) : get_index(Reg, h) < m_size

\* C2: a handle emplace returned and nobody erased is valid, names a row of
\* the store, and that row holds the values the handle's row was given.
C2_HandleStability ==
    (~undefined /\ watch.life = "live") =>
        /\ is_valid(Reg, watch.h)
        /\ get_index(Reg, watch.h) < m_size
        /\ RowAt(m_data, get_index(Reg, watch.h)) = watch.row

\* C3: erase of a valid handle at i # last leaves the values of row last at
\* row i, and the handle that owned row last valid and resolving to i.
C3_SwapCompaction ==
    \A h \in LiveHandles(Reg) :
        LET i == get_index(Reg, h)
            last == m_size - 1
        IN (~undefined /\ m_size > 0 /\ i < m_size /\ i # last) =>
               \A o \in soa_erase(S, h) :
                   ~o.undefined =>
                       /\ o.ret = TRUE
                       /\ RowAt(o.store.data, i) = RowAt(m_data, last)
                       /\ \A g \in HandlesAt(Reg, last) :
                              /\ is_valid(o.store.handles, g)
                              /\ get_index(o.store.handles, g) = i

\* C4: the two maps of the register form a partial bijection between live
\* ids and live indices.
C4_Bijection ==
    /\ \A id \in 0..(Len(m_idToIndex) - 1) :
           At(m_idToIndex, id) # invalid_index =>
               /\ At(m_idToIndex, id) < Len(m_indexToId)
               /\ At(m_indexToId, At(m_idToIndex, id)) = id
    /\ \A index \in 0..(Len(m_indexToId) - 1) :
           At(m_indexToId, index) # invalid_id =>
               /\ At(m_indexToId, index) < Len(m_idToIndex)
               /\ At(m_idToIndex, At(m_indexToId, index)) = index

C6_EmplaceFreshValid ==
    ~undefined =>
        \A xs \in Rows : \A o \in soa_emplace(S, xs) :
            (~o.threw /\ ~o.undefined) =>
                /\ handle_is_valid(o.ret)
                /\ is_valid(o.store.handles, o.ret)
                /\ get_index(o.store.handles, o.ret) = m_size
                /\ o.store.size = m_size + 1

\* C7: erase of a valid handle leaves every handle of its id invalid,
\* whatever its generation, with get_index invalid_index; and a copy of a
\* live handle with generation + 1 is invalid.
C7_EraseInvalidates ==
    \A h \in LiveHandles(Reg) :
        /\ \A g \in Generations :
               /\ ~is_valid(erase(Reg, h), Handle(h.id, g))
               /\ get_index(erase(Reg, h), Handle(h.id, g)) = invalid_index
        /\ ~is_valid(Reg, Handle(h.id, (h.generation + 1) % (U32_MAX + 1)))
        /\ get_index(Reg, Handle(h.id, (h.generation + 1) % (U32_MAX + 1)))
               = invalid_index

\* An erase of a valid handle has returned, and other handles are live.
C7_Witness ==
    /\ watch.life = "erased"
    /\ ~is_valid(Reg, watch.h)
    /\ LiveHandles(Reg) # {}

\* C8: a handle that was erased stays invalid, and an insert that reuses the
\* id of a handle issued earlier returns a strictly greater generation.
C8_StaleStaysDead ==
    /\ watch.life = "erased" =>
           /\ ~is_valid(Reg, watch.h)
           /\ get_index(Reg, watch.h) = invalid_index
    /\ watch.life # "none" =>
           \A index \in Indices : \A o \in insert(Reg, index) :
               (~o.undefined /\ handle_is_valid(o.ret) /\ o.ret.id = watch.h.id) =>
                   o.ret.generation > watch.h.generation

\* C9: update of a valid handle returns true exactly when no live id maps to
\* the new index; after a success the handle is valid at the new index and
\* the index it had is unowned.
C9_UpdateIffUnowned ==
    \A h \in LiveHandles(Reg) : \A index \in Indices :
        LET o == update(Reg, h, index) IN
        /\ o.ret = Unowned(Reg, index)
        /\ o.ret =>
               /\ is_valid(o.reg, h)
               /\ get_index(o.reg, h) = index
               /\ Unowned(o.reg, get_index(Reg, h))

\* C10: update returns false only for a handle that is not valid or an index
\* owned by another id; update(h, get_index(h)) is not rejected.
C10_UpdateRejectsOnlyForeign ==
    \A h \in Handles : \A index \in Indices :
        update(Reg, h, index).ret = FALSE =>
            \/ ~is_valid(Reg, h)
            \/ \E g \in HandlesAt(Reg, index) : g.id # h.id

\* The handles issued so far that the state still knows: the live ones and
\* the one followed (live or erased).
Issued(r) == LiveHandles(r) \cup (IF watch.life = "none" THEN {} ELSE {watch.h})

C13_SentinelFailuresNoChange ==
    LET r == Reg
        issued == Issued(r)
    IN /\ \A index \in U32 : \A o \in insert(r, index) :
              (~o.undefined /\ o.ret = NullHandle) => o.reg = r
       /\ \A h \in issued \cup {NullHandle} : \A index \in U32 :
              LET o == update(r, h, index) IN ~o.ret => o.reg = r
       /\ \A h \in issued \cup Handles :
              ~is_valid(r, h) => erase(r, h) = r
       /\ \A h \in LiveHandles(r) :
              LET erased == erase(r, h) IN
              /\ erase(erased, h) = erased
              /\ \A g \in Generations :
                     g # h.generation => erase(r, Handle(h.id, g)) = r

\* The followed handle was erased (an erase of it is a second erase), and
\* there are an insert that returns the null handle and an update of a live
\* handle that returns false.
C13_Witness ==
    /\ watch.life = "erased"
    /\ erase(Reg, watch.h) = Reg
    /\ \E index \in Indices : \E o \in insert(Reg, index) : o.ret = NullHandle
    /\ \E h \in LiveHandles(Reg) : \E index \in Indices : ~update(Reg, h, index).ret
    /\ Len(m_indexToId) > 1

\* C14: erase on the store with a handle that is not valid (null, erased,
\* stale generation) returns false and changes neither size, capacity, any
\* column nor the register; erasing a valid handle twice returns true, then
\* false.
C14_StoreEraseInvalidNoop ==
    ~undefined =>
        /\ \A h \in Issued(Reg) \cup Handles :
               ~is_valid(Reg, h) =>
                   \A o \in soa_erase(S, h) :
                       /\ o.ret = FALSE
                       /\ ~o.undefined /\ ~o.threw
                       /\ o.store = S
        /\ \A h \in LiveHandles(Reg) : \A o \in soa_erase(S, h) :
               ~o.undefined =>
                   /\ o.ret = TRUE
                   /\ \A p \in soa_erase(o.store, h) :
                          /\ p.ret = FALSE
                          /\ ~p.undefined
                          /\ p.store = o.store

\* An erase on the store took effect on the followed handle, rows remain,
\* and a live handle can still be erased.
C14_Witness ==
    /\ ~undefined
    /\ watch.life = "erased"
    /\ m_size > 0
    /\ LiveHandles(Reg) # {}
    /\ \A o \in soa_erase(S, watch.h) : o.ret = FALSE

C16_OthersUndisturbed ==
    LET r == Reg
        live == LiveHandles(r)
    IN /\ \A h \in live :
              LET erased == erase(r, h)
                  others == live \ {h}
              IN /\ \A g \in others :
                        /\ is_valid(erased, g)
                        /\ get_index(erased, g) = get_index(r, g)
                 /\ \A i \in U32 :
                        LET o == update(r, h, i) IN
                        o.ret =>
                            \A g \in others :
                                /\ is_valid(o.reg, g)
                                /\ get_index(o.reg, g) = get_index(r, g)
       /\ \A h \in (Issued(r) \cup Handles) \ live :
              LET erased == erase(r, h) IN
              \A g \in live :
                  /\ is_valid(erased, g)
                  /\ get_index(erased, g) = get_index(r, g)
       /\ \A h \in live : \A g \in Generations :
              is_valid(r, Handle(h.id, g)) => g = h.generation

\* Two handles are valid, the followed one among them, and the other one can
\* be erased or moved to a free index.
C16_Witness ==
    /\ watch.life = "live"
    /\ is_valid(Reg, watch.h)
    /\ \E h \in LiveHandles(Reg) \ {watch.h} :
           /\ ~is_valid(erase(Reg, h), h)
           /\ \E i \in U32 : update(Reg, h, i).ret

\* C17: immediately after h = emplace(xs) the row at get_index(h), which is
\* the row at the size before the call, holds xs in all N columns.
C17_EmplaceWritesValues ==
    ~undefined =>
        \A xs \in Rows : \A o \in soa_emplace(S, xs) :
            (~o.threw /\ ~o.undefined) =>
                /\ RowAt(o.store.data, m_size) = xs
                /\ RowAt(o.store.data, get_index(o.store.handles, o.ret)) = xs

\* C18: a resize of the store that does not grow the size keeps the
\* generation recorded for every id issued so far; a handle erased earlier
\* is still invalid after any resize, and no emplace returns it again.
C18_ShrinkKeepsGenerations ==
    ~undefined =>
        /\ \A size \in 0..m_size : \A o \in soa_resize(S, size) :
               (~o.threw /\ ~o.undefined) =>
                   /\ Len(o.store.handles.generations) >= Len(m_generations)
                   /\ \A id \in 0..(Len(m_generations) - 1) :
                          At(o.store.handles.generations, id) = At(m_generations, id)
        /\ watch.life = "erased" =>
               /\ ~is_valid(Reg, watch.h)
               /\ \A xs \in Rows : \A o \in soa_emplace(S, xs) :
                      (~o.threw /\ ~o.undefined) => o.ret # watch.h

\* C19: after resize(handleCapacity, indexCapacity) has returned, every id
\* in the free list is < handleCapacity and the reverse map has exactly
\* indexCapacity entries.
C19_ResizeDropsOutOfRange ==
    \A hc \in U32 : \A ic \in U32 :
        ~resize_throws(hc, ic) =>
            /\ \A k \in 1..Len(resize(Reg, hc, ic).freeIds) :
                   resize(Reg, hc, ic).freeIds[k] < hc
            /\ Len(resize(Reg, hc, ic).indexToId) = ic

\* The capacities on either side of the range test, and the extremes.
RangeCases == {0, 1, U32_MAX - 1, U32_MAX, U32_MAX + 1, SIZE_MAX}

\* C20: reserve and resize of the register throw exactly when one of the two
\* capacities is greater than the largest uint32_t, and then leave the four
\* vectors as they were; a reserve that returns changes no element, so the
\* validity and index of every handle are as before.
C20_RangeError ==
    LET r == Reg
        issued == Issued(r)
    IN \A hc \in RangeCases : \A ic \in RangeCases :
           LET rv == reserve_call(r, hc, ic) IN
           IF hc > U32_MAX \/ ic > U32_MAX
           THEN LET rz == resize_call(r, hc, ic) IN
                /\ rv.threw /\ rv.reg = r
                /\ rz.threw /\ rz.reg = r
           ELSE /\ ~resize_throws(hc, ic)
                /\ ~rv.threw
                /\ rv.reg = r
                /\ \A h \in issued :
                       /\ is_valid(rv.reg, h) = is_valid(r, h)
                       /\ get_index(rv.reg, h) = get_index(r, h)

\* The register holds a live handle, a retired id and two reverse entries,
\* all of which a resize to (0, 0) would drop.
C20_Witness ==
    /\ LiveHandles(Reg) # {}
    /\ m_freeIds # <<>>
    /\ Len(m_indexToId) = 2
    /\ resize_call(Reg, 0, 0).reg # Reg
    /\ resize_call(Reg, 0, U32_MAX + 1).threw

\* C21: a reserve, a resize or an emplace of the store that throws leaves
\* size, capacity, the columns and the register as they were, and emplace
\* throws only when the doubled capacity is greater than the largest
\* uint32_t.
C21_StoreRangeErrorNoChange ==
    ~undefined =>
        LET s == S IN
        /\ \A capacity \in RangeCases : \A o \in soa_reserve(s, capacity) :
               o.threw => o.store = s
        /\ \A size \in RangeCases : \A o \in soa_resize(s, size) :
               o.threw => o.store = s
        /\ \A xs \in Rows : \A o \in soa_emplace(s, xs) :
               o.threw =>
                   /\ o.store = s
                   /\ s.size = s.capacity
                   /\ s.capacity * 2 > U32_MAX

\* C22: erase on the store with a valid handle returns true and leaves the
\* size one less than it was; when the handle owns the row at size - 1 no
\* column changes and every other handle keeps its validity and its index.
C22_EraseDecrementsSize ==
    ~undefined =>
        LET s == S
            live == LiveHandles(s.handles)
        IN \A h \in live : \A o \in soa_erase(s, h) :
               /\ o.ret = TRUE
               /\ o.store.size = s.size - 1
               /\ get_index(s.handles, h) = s.size - 1 =>
                      /\ ~o.undefined
                      /\ o.store.data = s.data
                      /\ o.store.capacity = s.capacity
                      /\ ~is_valid(o.store.handles, h)
                      /\ \A g \in live \ {h} :
                             /\ is_valid(o.store.handles, g)
                             /\ get_index(o.store.handles, g) = get_index(s.handles, g)

\* C23: insert of an unclaimed index, when the free list is not empty and
\* every id in it is outside the arrays, never reads or pops an empty free
\* list; it returns a valid handle whose id is the length the generations
\* had before the call.
C23_InsertSkipsStaleFreeIds ==
    LET r == Reg IN
    (/\ r.freeIds # <<>>
     /\ \A k \in 1..Len(r.freeIds) :
            r.freeIds[k] >= Len(r.generations) \/ r.freeIds[k] >= Len(r.idToIndex))
    => \A index \in Indices :
           Unclaimed(r, index) =>
               \A o \in insert(r, index) :
                   /\ ~o.undefined
                   /\ o.ret.id = Len(r.generations)
                   /\ is_valid(o.reg, o.ret)
                   /\ get_index(o.reg, o.ret) = index

\* C24: in every state of the store 0 <= size <= capacity (erase never takes
\* the size below zero); an emplace at size = capacity that returns leaves
\* the capacity at max(1, 2 * capacity), one at size < capacity leaves the
\* capacity as it was.
C24_CapacityPolicy ==
    ~undefined =>
        /\ 0 <= m_size /\ m_size <= m_capacity
        /\ \A xs \in Rows : \A o \in soa_emplace(S, xs) :
               (~o.threw /\ ~o.undefined) =>
                   o.store.capacity =
                       (IF m_size = m_capacity
                        THEN (IF m_capacity = 0 THEN 1 ELSE 2 * m_capacity)
                        ELSE m_capacity)

\* C25: update and erase never clear or overwrite a reverse entry that holds
\* another id; for every handle that passes their validity test the guard
\* (old index in range and the reverse entry there equal to the id) is true,
\* so a success always clears the old reverse entry.
C25_OwnershipGuard ==
    LET r == Reg
        OthersKept(x2i, id) ==
            \A k \in 0..(Len(r.indexToId) - 1) :
                (At(r.indexToId, k) # invalid_id /\ At(r.indexToId, k) # id) =>
                    At(x2i, k) = At(r.indexToId, k)
    IN \A h \in LiveHandles(r) :
           LET old == At(r.idToIndex, h.id) IN
           /\ owns_reverse(r.indexToId, old, h.id)
           /\ At(erase(r, h).indexToId, old) = invalid_id
           /\ OthersKept(erase(r, h).indexToId, h.id)
           /\ \A index \in U32 :
                  LET o == update(r, h, index) IN
                  /\ owns_reverse(ensure_size(r.indexToId, index + 1, invalid_id),
                                  old, h.id)
                  /\ OthersKept(o.reg.indexToId, h.id)
                  /\ o.ret => /\ index # old
                              /\ At(o.reg.indexToId, old) = invalid_id
                              /\ At(o.reg.indexToId, index) = h.id

\* A valid handle can be moved with success while the reverse map holds an
\* entry of another id.
C25_Witness ==
    /\ Cardinality(LiveHandles(Reg)) >= 1
    /\ \E k \in 0..(Len(m_indexToId) - 1) :
           /\ At(m_indexToId, k) # invalid_id
           /\ \E h \in LiveHandles(Reg) :
                  /\ At(m_indexToId, k) # h.id
                  /\ \E index \in U32 : update(Reg, h, index).ret

\* C26: every id of the free list is a retired id (inside the forward map,
\* with no index) and appears once; insert never hands out an id that is
\* live, nor a handle equal to one that is valid.
C26_FreeListInvariant ==
    LET r == Reg
        live == LiveHandles(r)
    IN /\ \A k \in 1..Len(r.freeIds) :
              /\ r.freeIds[k] < Len(r.idToIndex)
              /\ At(r.idToIndex, r.freeIds[k]) = invalid_index
              /\ \A j \in 1..Len(r.freeIds) : r.freeIds[j] = r.freeIds[k] => j = k
       /\ \A index \in Indices : \A o \in insert(r, index) :
              (~o.undefined /\ handle_is_valid(o.ret)) =>
                  /\ o.ret \notin live
                  /\ \A g \in live : g.id # o.ret.id

\* C27: after clear() the size is 0, every handle issued before is invalid
\* (erase of it returns false and changes nothing), and each emplace that
\* follows returns a non-null valid handle resolving to the row it appended.
C27_ClearEmpties ==
    ~undefined =>
        LET c == soa_clear(S) IN
        /\ c.size = 0
        /\ \A h \in Issued(Reg) :
               /\ ~is_valid(c.handles, h)
               /\ \A o \in soa_erase(c, h) :
                      o.ret = FALSE /\ ~o.undefined /\ o.store = c
        /\ \A xs \in Rows : \A o \in soa_emplace(c, xs) :
               (~o.threw /\ ~o.undefined) =>
                   /\ handle_is_valid(o.ret)
                   /\ is_valid(o.store.handles, o.ret)
                   /\ get_index(o.store.handles, o.ret) = 0
                   /\ o.store.size = 1

\* C28: shrink_to_fit leaves capacity equal to size, the size and the rows
\* as they were, and every handle that was valid still valid with the same
\* index, whatever its id.
C28_ShrinkToFitKeeps ==
    ~undefined =>
        LET s == S
            live == LiveHandles(s.handles)
        IN \A o \in soa_shrink_to_fit(s) :
               /\ ~o.threw /\ ~o.undefined
               /\ o.store.capacity = s.size
               /\ o.store.size = s.size
               /\ \A i \in 0..(s.size - 1) : RowAt(o.store.data, i) = RowAt(s.data, i)
               /\ \A h \in live :
                      /\ is_valid(o.store.handles, h)
                      /\ get_index(o.store.handles, h) = get_index(s.handles, h)

\* A worker thread is inside the loop of run().
WorkerRunning == m_thread \in {"wait", "step", "sleep"}

\* C29: pause() that succeeds on a RUNNING module leaves it PAUSED; a second
\* pause() then returns true and changes nothing; a start() that follows
\* calls onResume and leaves the module RUNNING.
C29_PauseResume ==
    m_state = "RUNNING" =>
        \A ok \in BOOLEAN :
            LET p == pause(m_state, ok) IN
            p.ret =>
                /\ p.state = "PAUSED"
                /\ \A again \in BOOLEAN :
                       pause(p.state, again) = Returned(p.state, TRUE, "none", FALSE)
                /\ LET s == start(p.state, m_thread, TRUE) IN
                   /\ s.ret
                   /\ s.hook = "onResume"
                   /\ s.state = "RUNNING"

\* C30: when start() has returned true and the state is RUNNING, a worker
\* thread is executing run() (and so goes on to call step()), in a first run
\* as in one restarted after stop() or a ONCE run, reset() and start().
C30_WorkerRunsWhenRunning ==
    (called = [op |-> "start", ret |-> TRUE] /\ m_state = "RUNNING") =>
        WorkerRunning

====
